---- MODULE Spec2Model ----
(***************************************************************************)
(* A model of Server.js: the static class Server (src/Server.js 46-454),   *)
(* the instance class Server (src/Server.js 472-638) and the two           *)
(* reachability probes canReach / canReachHost.                            *)
(*                                                                         *)
(* JavaScript values are tagged records; strings are sequences of          *)
(* one-character strings so that toUpperCase, toLowerCase, indexOf,        *)
(* encodeURI and the dirname regular expression are computed.              *)
(***************************************************************************)
EXTENDS Integers, Sequences, FiniteSets, TLC

VARIABLES
    variant,      \* "static" (class at line 46) or "instance" (class at line 472)
    method,       \* Server.method / this.method
    src,          \* Server.src / this.src
    content_type, \* Server.content_type (static field, line 107)
    contentType,  \* this.contentType (line 492); in the static class the property
                  \* that setContentType creates at line 313
    params,       \* Server.params / this.params
    obj,          \* Server.obj / this.obj
    cbf,          \* Server.cbf / this.cbf
    con,          \* Server.con / this.con: index into xhr, 0 when false
    error,        \* Server.error / this.error
    error_level,  \* Server.error_level / this.errorLevel
    status,       \* Server.status / this.status
    xhr,          \* every XMLHttpRequest created by connect, in creation order
    calls,        \* every callback invocation, in order
    uncaught,     \* the requests whose readystatechange handler threw
    warned,       \* the requests whose handler ended in console.warn
    last,         \* the arguments and the outcome of the latest send call
    nsend,        \* number of send calls so far
    probes,       \* canReach: one record per call (its XMLHttpRequest and promise)
    hostCalls,    \* canReachHost: one record per call
    now,          \* performance.now(), in milliseconds
    stack         \* index of the canReachHost call that is spinning, 0 when the stack is empty

vars == <<variant, method, src, content_type, contentType, params, obj, cbf, con,
          error, error_level, status, xhr, calls, uncaught, warned, last, nsend,
          probes, hostCalls, now, stack>>

clientVars == <<variant, method, src, content_type, contentType, params, obj, cbf, con,
                error, error_level, status, xhr, calls, uncaught, warned, last, nsend>>

hostVars == <<hostCalls, now, stack>>

-----------------------------------------------------------------------------
(* Bounds of the model *)

MaxSends == 2

MaxProbes == 2

MaxHostCalls == 2

MaxNow == 250

-----------------------------------------------------------------------------
(* JavaScript values *)

Undefined == [t |-> "undefined"]

Null == [t |-> "null"]

Bool(b) == [t |-> "boolean", b |-> b]

Str(s) == [t |-> "string", s |-> s]

Num(n) == [t |-> "number", n |-> n]

Fn(f) == [t |-> "function", f |-> f]

False == Bool(FALSE)

True == Bool(TRUE)

(* typeof: null is "object"; no value has the type "array" *)
typeof(v) == IF v.t = "null" THEN "object" ELSE v.t

(* ToBoolean *)
Truthy(v) ==
    CASE v.t = "undefined" -> FALSE
      [] v.t = "null" -> FALSE
      [] v.t = "boolean" -> v.b
      [] v.t = "string" -> Len(v.s) > 0
      [] v.t = "number" -> v.n # 0
      [] OTHER -> TRUE

(* a || b *)
Or(a, b) == IF Truthy(a) THEN a ELSE b

-----------------------------------------------------------------------------
(* Strings *)

LowerCase == <<"a","b","c","d","e","f","g","h","i","j","k","l","m",
               "n","o","p","q","r","s","t","u","v","w","x","y","z">>

UpperCase == <<"A","B","C","D","E","F","G","H","I","J","K","L","M",
               "N","O","P","Q","R","S","T","U","V","W","X","Y","Z">>

Digits == {"0","1","2","3","4","5","6","7","8","9"}

Range(s) == {s[i] : i \in DOMAIN s}

UpperChar(c) ==
    IF c \in Range(LowerCase)
    THEN UpperCase[CHOOSE i \in 1..26 : LowerCase[i] = c]
    ELSE c

LowerChar(c) ==
    IF c \in Range(UpperCase)
    THEN LowerCase[CHOOSE i \in 1..26 : UpperCase[i] = c]
    ELSE c

toUpperCase(s) == [i \in 1..Len(s) |-> UpperChar(s[i])]

toLowerCase(s) == [i \in 1..Len(s) |-> LowerChar(s[i])]

(* sub occurs in s at position p (1-based) *)
OccursAt(s, sub, p) ==
    /\ p >= 1
    /\ p + Len(sub) - 1 <= Len(s)
    /\ \A i \in 1..Len(sub) : s[p + i - 1] = sub[i]

(* s.indexOf(sub) != -1 *)
Includes(s, sub) == \E p \in 1..(Len(s) + 1) : OccursAt(s, sub, p)

(* encodeURI on the characters of the model: a space becomes %20 *)
RECURSIVE encodeURI(_)
encodeURI(s) ==
    IF s = <<>> THEN <<>>
    ELSE (IF Head(s) = " " THEN <<"%","2","0">> ELSE <<Head(s)>>) \o encodeURI(Tail(s))

(* String(n) for the numbers of the model *)
NumToString(n) ==
    LET d == <<"0","1","2","3","4","5","6","7","8","9">>
    IN  IF n < 10 THEN <<d[n + 1]>> ELSE <<d[(n \div 10) + 1], d[(n % 10) + 1]>>

POST == <<"P","O","S","T">>

FormUrlEncoded ==
    <<"a","p","p","l","i","c","a","t","i","o","n","/","x","-","w","w","w","-",
      "f","o","r","m","-","u","r","l","e","n","c","o","d","e","d">>

HTTP == <<"h","t","t","p">>

-----------------------------------------------------------------------------
(* The hosting page: window.location and the functions that are properties *)
(* of window (a callback given by name is looked up there).                *)

LocationProtocol == <<"h","t","t","p","s",":">>

LocationHost == <<"h",".","i","o">>

LocationPathname == <<"/","a","p","p","/","i",".","j","s">>

WindowFunctions == {<<"g">>}

(* window[v]: the property whose key is String(v) *)
window(v) == IF v.t = "string" /\ v.s \in WindowFunctions THEN Fn(v.s) ELSE Undefined

(* JSON.parse on the response bodies of the model: the parsed value, or     *)
(* Undefined where JSON.parse throws SyntaxError                            *)
JSONparse(text) ==
    IF text \in {<<"{","}">>, <<"[","]">>}
    THEN [t |-> "object", json |-> text]
    ELSE Undefined

-----------------------------------------------------------------------------
(* Configuration objects and the args mapping *)

Config(s, a, m, ct, fu, cb, cl, cf) ==
    [t |-> "object", src |-> s, args |-> a, method |-> m, content_type |-> ct,
     func |-> fu, cbf |-> cb, callback |-> cl, callback_function |-> cf]

Args(entries) == [t |-> "object", entries |-> entries]

-----------------------------------------------------------------------------
(* The static class (src/Server.js 46-454) *)

(* check_obj: typeof Server.obj is "array" or "object" *)
static_check_obj(o) == typeof(o) = "array" \/ typeof(o) = "object"

(* url_encode: strings go through encodeURI, other values pass through and *)
(* are turned into text by the concatenation in getParams                  *)
static_url_encode(q) ==
    IF typeof(q) = "string" THEN encodeURI(q.s)
    ELSE IF typeof(q) = "number" THEN NumToString(q.n)
    ELSE <<>>

RECURSIVE static_joinParams(_, _)
static_joinParams(entries, i) ==
    IF entries = <<>> THEN <<>>
    ELSE LET e == Head(entries)
             pair == static_url_encode(Str(e.k)) \o <<"=">> \o static_url_encode(e.v)
         IN  (IF i = 0 THEN pair ELSE <<"&">> \o pair)
                 \o static_joinParams(Tail(entries), 1)

static_getParams(o) ==
    IF ~Truthy(o.args) \/ ~(typeof(o.args) = "array" \/ typeof(o.args) = "object")
    THEN <<>>
    ELSE static_joinParams(o.args.entries, 0)

(* the extensions of the regular expressions in dirname *)
Extensions == {<<"p","h","p">>, <<"j","s">>, <<"c","s","s">>,
               <<"h","t","m","l">>, <<"a","s","p">>}

(* the class A-z0-9: letters, digits and the characters between Z and a    *)
(* (the grave accent, which no string of the model contains, is left out)  *)
WordChar(c) ==
    c \in Range(LowerCase) \cup Range(UpperCase) \cup Digits \cup {"[","\\","]","^","_"}

(* the regular expression of dirname matches q starting at p: an optional  *)
(* slash, one or more word characters, a dot, an extension, then the rest  *)
DirnameMatchAt(q, p) ==
    \E a \in {0, 1} : \E n \in 1..Len(q) :
        /\ a = 1 => (p <= Len(q) /\ q[p] = "/")
        /\ p + a + n <= Len(q)
        /\ \A i \in (p + a)..(p + a + n - 1) : WordChar(q[i])
        /\ q[p + a + n] = "."
        /\ \E x \in Extensions : OccursAt(toLowerCase(q), x, p + a + n + 1)

LastIndexOf(q, c) ==
    IF c \in Range(q) THEN CHOOSE i \in DOMAIN q : q[i] = c /\ \A j \in (i + 1)..Len(q) : q[j] # c
    ELSE 0

static_dirname(q) ==
    LET dot == LastIndexOf(q, ".")
        tail == SubSeq(q, dot + 1, Len(q))
    IN  IF dot # 0 /\ (\E x \in Extensions : Includes(toLowerCase(tail), x))
             /\ (\E p \in 1..Len(q) : DirnameMatchAt(q, p))
        THEN LET p == CHOOSE p \in 1..Len(q) :
                        DirnameMatchAt(q, p) /\ \A r \in 1..(p - 1) : ~DirnameMatchAt(q, r)
             IN  SubSeq(q, 1, p - 1) \o <<"/">>
        ELSE q

(* getSrc: the src of the config when it is a string, false otherwise *)
static_getSrc(o) ==
    IF typeof(o) # "array" /\ typeof(o) # "object" THEN False
    ELSE IF typeof(o.src) = "string" THEN o.src ELSE False

(* validateSources: a string source without "http" is made absolute *)
static_validateSources(s) ==
    IF typeof(s) # "string" THEN s
    ELSE IF ~Includes(toLowerCase(s.s), HTTP)
         THEN Str(LocationProtocol \o <<"/","/">> \o LocationHost
                    \o static_dirname(LocationPathname) \o s.s)
         ELSE s

(* setMethod: assigns only when the config has a non-empty string method *)
static_setMethod(o, m) ==
    IF ~static_check_obj(o) THEN m
    ELSE IF Truthy(o.method) /\ typeof(o.method) = "string"
         THEN toUpperCase(o.method.s)
         ELSE m

(* setContentType: assigns Server.contentType (not Server.content_type) *)
static_setContentType(o, c) ==
    IF ~static_check_obj(o) THEN c
    ELSE IF Truthy(o.content_type) /\ typeof(o.content_type) = "string"
         THEN Str(toUpperCase(o.content_type.s))
         ELSE c

(* setCallbackFunction *)
static_setCallbackFunction(o, c) ==
    IF ~static_check_obj(o) THEN c
    ELSE Or(o.func, Or(o.cbf, Or(o.callback, Or(o.callback_function, False))))

(* the callback chosen at lines 228-233 of send *)
static_resolveCallback(o, c, cbfArg, funcArg) ==
    IF funcArg = False /\ cbfArg # False THEN cbfArg
    ELSE IF cbfArg = True /\ funcArg # False THEN funcArg
    ELSE static_setCallbackFunction(o, c)

(* static_checkArgs without the test of q["src"] at line 439 *)
static_checkArgs_srcUnchecked(q) ==
    IF typeof(q) # "array" /\ typeof(q) # "object" THEN "reject"
    ELSE IF q.t = "null" THEN "throw"
    ELSE IF ~Truthy(q.args) THEN "warning"
    ELSE "ok"

(* checkArgs: "reject" (not an object), "throw" (q is null, q["src"] throws *)
(* TypeError), "fatal" (no src), "warning" (no args), "ok"                 *)
static_checkArgs(q) ==
    IF typeof(q) # "array" /\ typeof(q) # "object" THEN "reject"
    ELSE IF q.t = "null" THEN "throw"
    ELSE IF ~Truthy(q.src) THEN "fatal"
    ELSE IF ~Truthy(q.args) THEN "warning"
    ELSE "ok"

(* !x.length > 0 is (!x.length) > 0: the boolean !x.length compared as a number *)
NotLengthGreaterThanZero(s) == (IF Len(s) = 0 THEN 1 ELSE 0) > 0

(* checkReq *)
static_checkReq(m, p, o) ==
    ~(NotLengthGreaterThanZero(m) \/ NotLengthGreaterThanZero(p) \/ o = False)

-----------------------------------------------------------------------------
(* The instance class (src/Server.js 472-638) *)

inst_checkObj(o) == typeof(o) \in {"array", "object"}

inst_urlEncode(q) ==
    IF typeof(q) = "string" THEN encodeURI(q.s)
    ELSE IF typeof(q) = "number" THEN NumToString(q.n)
    ELSE <<>>

RECURSIVE inst_joinParams(_, _)
inst_joinParams(entries, i) ==
    IF entries = <<>> THEN <<>>
    ELSE LET e == Head(entries)
             pair == inst_urlEncode(Str(e.k)) \o <<"=">> \o inst_urlEncode(e.v)
         IN  (IF i = 0 THEN pair ELSE <<"&">> \o pair)
                 \o inst_joinParams(Tail(entries), i + 1)

inst_getParams(o) ==
    IF ~inst_checkObj(o) \/ ~(typeof(o.args) \in {"array", "object"})
    THEN <<>>
    ELSE inst_joinParams(o.args.entries, 0)

inst_getSrc(o) ==
    IF inst_checkObj(o) /\ typeof(o.src) = "string" THEN o.src ELSE False

(* setMethod: always assigns, "POST" when the config gives no string method *)
inst_setMethod(o) ==
    IF inst_checkObj(o) /\ Truthy(o.method) /\ typeof(o.method) = "string"
    THEN toUpperCase(o.method.s)
    ELSE POST

inst_setContentType(o) ==
    IF inst_checkObj(o) /\ Truthy(o.content_type) /\ typeof(o.content_type) = "string"
    THEN Str(toUpperCase(o.content_type.s))
    ELSE Str(FormUrlEncoded)

inst_setCallbackFunction(o) ==
    IF inst_checkObj(o)
    THEN Or(o.func, Or(o.cbf, Or(o.callback, Or(o.callback_function, False))))
    ELSE False

(* line 521: func === false ? cbf : (cbf === true ? func : setCallbackFunction()) *)
inst_resolveCallback(o, cbfArg, funcArg) ==
    IF funcArg = False THEN cbfArg
    ELSE IF cbfArg = True THEN funcArg
    ELSE inst_setCallbackFunction(o)

(* checkArgs with setError / setWarning: same outcomes as static_checkArgs *)
inst_checkArgs(q) ==
    IF ~(typeof(q) \in {"array", "object"}) THEN "reject"
    ELSE IF q.t = "null" THEN "throw"
    ELSE IF ~Truthy(q.src) THEN "fatal"
    ELSE IF ~Truthy(q.args) THEN "warning"
    ELSE "ok"

(* checkReq: this.method && this.params && this.obj *)
inst_checkReq(m, p, o) == Len(m) > 0 /\ Len(p) > 0 /\ Truthy(o)

-----------------------------------------------------------------------------
(* Responses and the readystatechange handlers *)

Msg(text) == [t |-> "string", text |-> text]

(* the body handed to the callback: parsed when it has both braces or both *)
(* brackets and JSON.parse succeeds, the raw text otherwise                *)
classify(text) ==
    IF (Includes(text, <<"{">>) /\ Includes(text, <<"}">>))
         \/ (Includes(text, <<"[">>) /\ Includes(text, <<"]">>))
    THEN (IF JSONparse(text) = Undefined THEN Str(text) ELSE JSONparse(text))
    ELSE Str(text)

InSuccessRange(st) == st >= 200 /\ st < 300

Call(f, arg, x) == [fn |-> f, arg |-> arg, req |-> x]

(* The handler installed at line 247, run for an event of request x; inside *)
(* it `this` is request x. L is the record of calls, uncaught and warned.   *)
static_onreadystatechange(x, xs, c, L) ==
    LET this == xs[x] IN
    IF this.readyState # 4 THEN L
    ELSE IF InSuccessRange(this.status)
    THEN IF ~Truthy(c) THEN [L EXCEPT !.warned = @ \cup {x}]
         ELSE IF Truthy(window(c)) \/ typeof(c) = "function"
              THEN LET resp == classify(this.responseText)
                   IN  IF Truthy(window(c))
                       THEN [L EXCEPT !.calls = Append(@, Call(window(c).f, resp, x))]
                       ELSE [L EXCEPT !.calls = Append(@, Call(c.f, resp, x))]
              ELSE [L EXCEPT !.warned = @ \cup {x}]
    ELSE L

(* processResponse, lines 542-547. Lines 544-545 have no semicolon between *)
(* them and line 545 starts with a parenthesis, so they are one statement: *)
(*   let resp = this.con.responseText(...) ? resp = ... : null             *)
(* whose argument reads resp before it is initialised: a ReferenceError is *)
(* thrown before line 546 is reached. cn is this.con.                      *)
inst_processResponse(x, xs, cn, c, L) ==
    IF ~Truthy(c) THEN [L EXCEPT !.warned = @ \cup {x}]
    ELSE [L EXCEPT !.uncaught = @ \cup {x}]

(* handleReadyStateChange, run for an event of request x: it reads this.con, *)
(* the latest request, not the request whose event it is                    *)
inst_handleReadyStateChange(x, xs, cn, c, L) ==
    IF xs[cn].readyState # 4 THEN L
    ELSE IF InSuccessRange(xs[cn].status)
         THEN inst_processResponse(x, xs, cn, c, L)
         ELSE L

(* the handler of the client at hand *)
Handler(x, xs, cn, c, L) ==
    IF variant = "static"
    THEN static_onreadystatechange(x, xs, c, L)
    ELSE inst_handleReadyStateChange(x, xs, cn, c, L)

-----------------------------------------------------------------------------
(* The inputs of the model *)

AbsoluteUrl == <<"h","t","t","p",":","/","/","h","/","a">>

RelativeUrl == <<"d",".","p","h","p">>

SomeArgs == Args(<<[k |-> <<"a">>, v |-> Str(<<"x"," ","y">>)], [k |-> <<"b">>, v |-> Num(5)]>>)

SrcValues == {Undefined, Str(<<>>), Num(0), Str(AbsoluteUrl), Str(RelativeUrl), Num(7)}

ArgsValues == {Undefined, SomeArgs}

MethodValues == {Undefined, Str(<<>>), Str(<<"g","e","t">>), Num(5)}

ContentTypeValues == {Undefined, Str(<<"t","e","x","t","/","c","s","s">>), Num(5)}

(* configs that differ in src and args *)
SrcConfigs ==
    {Config(s, a, Undefined, Undefined, Undefined, Undefined, Undefined, Undefined) :
        s \in SrcValues, a \in ArgsValues}

(* configs that differ in method and content-type *)
DeriveConfigs ==
    {Config(Str(AbsoluteUrl), SomeArgs, m, ct, Undefined, Undefined, Undefined, Undefined) :
        m \in MethodValues, ct \in ContentTypeValues}

(* configs that differ in their callback keys *)
CallbackConfigs ==
    {Config(Str(AbsoluteUrl), SomeArgs, Undefined, Undefined, fu, cb, k[1], k[2]) :
        fu \in {Undefined, Fn("f3")}, cb \in {Undefined, Fn("f4")},
        k \in {<<Undefined, Undefined>>, <<Undefined, Fn("f5")>>, <<Str(<<"g">>), Fn("f5")>>}}

(* values that are not configuration objects *)
NonObjects == {False, Null, Num(3)}

CbfArgs == {False, True, Fn("f1")}

FuncArgs == {False, Fn("f2")}

BaseConfig ==
    Config(Str(AbsoluteUrl), SomeArgs, Undefined, Undefined, Undefined, Undefined,
           Undefined, Undefined)

(* the calls send(q, cbf, func) of each specification *)
Inputs ==
    {<<q, Fn("f1"), False>> : q \in DeriveConfigs}
        \cup {<<BaseConfig, True, Fn("f2")>>, <<BaseConfig, False, False>>,
              <<BaseConfig, Str(<<"g">>), False>>}

SrcInputs ==
    {<<q, Fn("f1"), False>> : q \in SrcConfigs \cup NonObjects}

CallbackInputs == CallbackConfigs \X CbfArgs \X FuncArgs

ResponseTexts == {<<"o","k">>, <<"{","}">>, <<"{","x","}">>}

Statuses == {199, 200, 299, 300}

-----------------------------------------------------------------------------
(* State *)

Init ==
    /\ variant \in {"static", "instance"}
    /\ method = POST
    /\ src = False
    /\ content_type = (IF variant = "static" THEN Str(FormUrlEncoded) ELSE Undefined)
    /\ contentType = (IF variant = "static" THEN Undefined ELSE Str(FormUrlEncoded))
    /\ params = <<>>
    /\ obj = False
    /\ cbf = False
    /\ con = 0
    /\ error = False
    /\ error_level = 0
    /\ status = False
    /\ xhr = <<>>
    /\ calls = <<>>
    /\ uncaught = {}
    /\ warned = {}
    /\ last = [cfg |-> False, cbf |-> False, func |-> False, outcome |-> "none"]
    /\ nsend = 0
    /\ probes = <<>>
    /\ hostCalls = <<>>
    /\ now = 0
    /\ stack = 0

(* overrides["url-auto-resolve"], never assigned after line 76 *)
UrlAutoResolve == FALSE

(* new XMLHttpRequest(), open(m, s, true), setRequestHeader("Content-type", ct), *)
(* send(p). cfg and cb record the config and the callback of the send that  *)
(* made it, during the earlier requests still in flight at that moment      *)
NewRequest(m, s, ct, p, q, c) ==
    [method |-> m, url |-> s, headers |-> <<[name |-> "Content-type", value |-> ct]>>,
     body |-> p, readyState |-> 1, status |-> 0, responseText |-> <<>>,
     cfg |-> q, cb |-> c, during |-> {i \in DOMAIN xhr : xhr[i].readyState # 4}]

Log == [calls |-> calls, uncaught |-> uncaught, warned |-> warned]

SetLog(L) ==
    /\ calls' = L.calls
    /\ uncaught' = L.uncaught
    /\ warned' = L.warned

Outcome(q, a, f, out) == [cfg |-> q, cbf |-> a, func |-> f, outcome |-> out]

(* connect, static (lines 242-285) *)
static_connect(m, s, p, o, c, q, a, f) ==
    IF ~static_checkReq(m, p, o)
    THEN /\ last' = Outcome(q, a, f, "not sent")
         /\ UNCHANGED <<xhr, con, calls, uncaught, warned>>
    ELSE LET x == Len(xhr) + 1
             xs == Append(xhr, NewRequest(m, s, content_type, p, q, c))
         IN  /\ xhr' = xs
             /\ con' = x
             /\ SetLog(static_onreadystatechange(x, xs, c, Log))
             /\ last' = Outcome(q, a, f, "sent")

(* send, static (lines 212-236) *)
static_send(q, a, f) ==
    LET out == static_checkArgs(q) IN
    IF out \in {"reject", "throw"}
    THEN /\ last' = Outcome(q, a, f, out)
         /\ UNCHANGED <<method, src, content_type, contentType, params, obj, cbf, con,
                        error, error_level, status, xhr, calls, uncaught, warned>>
    ELSE IF out = "fatal"
    THEN /\ status' = Num(1)
         /\ error' = Msg("URL destination was not specified in arguments. Please specify a target URL server to send this data to.")
         /\ error_level' = 1
         /\ last' = Outcome(q, a, f, out)
         /\ UNCHANGED <<method, src, content_type, contentType, params, obj, cbf, con,
                        xhr, calls, uncaught, warned>>
    ELSE LET s0 == static_getSrc(q)
             s == IF UrlAutoResolve = FALSE THEN static_validateSources(s0) ELSE s0
             p == static_getParams(q)
             m == static_setMethod(q, method)
             ct == static_setContentType(q, contentType)
             c == static_resolveCallback(q, cbf, a, f)
         IN  /\ IF out = "warning"
                THEN /\ status' = Num(1)
                     /\ error' = Msg("No arguments were specified.")
                     /\ error_level' = 16
                ELSE UNCHANGED <<status, error, error_level>>
             /\ obj' = q
             /\ src' = s
             /\ params' = p
             /\ method' = m
             /\ contentType' = ct
             /\ cbf' = c
             /\ UNCHANGED content_type
             /\ static_connect(m, s, p, q, c, q, a, f)

(* connect, instance (lines 526-533) *)
inst_connect(m, s, ct, p, o, c, q, a, f) ==
    IF ~inst_checkReq(m, p, o)
    THEN /\ last' = Outcome(q, a, f, "not sent")
         /\ UNCHANGED <<xhr, con, calls, uncaught, warned>>
    ELSE LET x == Len(xhr) + 1
             xs == Append(xhr, NewRequest(m, s, ct, p, q, c))
         IN  /\ xhr' = xs
             /\ con' = x
             /\ SetLog(inst_handleReadyStateChange(x, xs, x, c, Log))
             /\ last' = Outcome(q, a, f, "sent")

(* send and prepareAndSend, instance (lines 510-523) *)
inst_send(q, a, f) ==
    LET out == inst_checkArgs(q) IN
    IF out \in {"reject", "throw"}
    THEN /\ last' = Outcome(q, a, f, out)
         /\ UNCHANGED <<method, src, content_type, contentType, params, obj, cbf, con,
                        error, error_level, status, xhr, calls, uncaught, warned>>
    ELSE IF out = "fatal"
    THEN /\ status' = Num(1)
         /\ error' = Msg("URL destination not specified")
         /\ error_level' = 1
         /\ last' = Outcome(q, a, f, out)
         /\ UNCHANGED <<method, src, content_type, contentType, params, obj, cbf, con,
                        xhr, calls, uncaught, warned>>
    ELSE LET s == inst_getSrc(q)
             p == inst_getParams(q)
             m == inst_setMethod(q)
             ct == inst_setContentType(q)
             c == inst_resolveCallback(q, a, f)
         IN  /\ IF out = "warning"
                THEN /\ status' = Num(1)
                     /\ error' = Msg("No arguments specified")
                     /\ error_level' = 16
                ELSE UNCHANGED <<status, error, error_level>>
             /\ obj' = q
             /\ src' = s
             /\ params' = p
             /\ method' = m
             /\ contentType' = ct
             /\ cbf' = c
             /\ UNCHANGED content_type
             /\ inst_connect(m, s, ct, p, q, c, q, a, f)

(* a call of send(q, a, f) on the client, with its arguments drawn from I *)
Send(I) ==
    /\ nsend < MaxSends
    /\ \E in \in I :
          IF variant = "static"
          THEN static_send(in[1], in[2], in[3])
          ELSE inst_send(in[1], in[2], in[3])
    /\ nsend' = nsend + 1
    /\ UNCHANGED <<variant, probes, hostCalls, now, stack>>

(* the transport moves request x to HEADERS_RECEIVED, then to LOADING, and *)
(* fires readystatechange                                                  *)
Progress ==
    /\ \E x \in DOMAIN xhr :
          /\ xhr[x].readyState \in {1, 2}
          /\ LET xs == [xhr EXCEPT ![x].readyState = @ + 1]
             IN  /\ xhr' = xs
                 /\ SetLog(Handler(x, xs, con, cbf, Log))
    /\ UNCHANGED <<variant, method, src, content_type, contentType, params, obj, cbf, con,
                   error, error_level, status, last, nsend, probes, hostCalls, now, stack>>

(* request x completes with a status and a body: readyState 4, readystatechange *)
Done(S, T) ==
    /\ \E x \in DOMAIN xhr : \E st \in S : \E text \in T :
          /\ xhr[x].readyState = 3
          /\ LET xs == [xhr EXCEPT ![x].readyState = 4, ![x].status = st,
                                   ![x].responseText = text]
             IN  /\ xhr' = xs
                 /\ SetLog(Handler(x, xs, con, cbf, Log))
    /\ UNCHANGED <<variant, method, src, content_type, contentType, params, obj, cbf, con,
                   error, error_level, status, last, nsend, probes, hostCalls, now, stack>>

(* request x fails in the network: readyState 4 with status 0, readystatechange *)
NetworkError ==
    /\ \E x \in DOMAIN xhr :
          /\ xhr[x].readyState \in {1, 2, 3}
          /\ LET xs == [xhr EXCEPT ![x].readyState = 4, ![x].status = 0]
             IN  /\ xhr' = xs
                 /\ SetLog(Handler(x, xs, con, cbf, Log))
    /\ UNCHANGED <<variant, method, src, content_type, contentType, params, obj, cbf, con,
                   error, error_level, status, last, nsend, probes, hostCalls, now, stack>>

(* sends that differ in method, content-type and callback, any response *)
Next == Send(Inputs) \/ Progress \/ Done(Statuses, ResponseTexts) \/ NetworkError

Spec == Init /\ [][Next]_vars

(* sends that differ in the config itself, in src and in args *)
NextSrc == Send(SrcInputs) \/ Progress \/ Done({200, 300}, {<<"o","k">>}) \/ NetworkError

SpecSrc == Init /\ [][NextSrc]_vars

(* sends that differ in the callback arguments and the callback keys *)
NextCallback ==
    Send(CallbackInputs) \/ Progress \/ Done({200}, {<<"o","k">>}) \/ NetworkError

SpecCallback == Init /\ [][NextCallback]_vars

-----------------------------------------------------------------------------
(* canReach (static, lines 187-203) *)

(* the default of the timeout parameter, line 187 *)
DefaultTimeout == 100

HEAD == <<"H","E","A","D">>

ProbeUrls == {Undefined, Str(<<>>), Str(AbsoluteUrl), Num(7)}

ProbeTimeouts == {0, DefaultTimeout}

ProbeStatuses == {199, 200, 299, 300, 500}

(* canReach_reachable without the upper end of the range *)
canReach_reachable_noUpperEnd(st) == st >= 200

(* the value handed to resolve at line 194 *)
canReach_reachable(st) == st >= 200 /\ st < 300

(* resolve(v) on a promise: the first call settles it, later calls do nothing *)
Resolve(promise, v) == IF promise = "pending" THEN (IF v THEN "true" ELSE "false") ELSE promise

(* the handler of line 192 on probe record r *)
canReach_onreadystatechange(r) ==
    IF r.readyState = 4
    THEN [r EXCEPT !.promise = Resolve(@, canReach_reachable(r.status))]
    ELSE r

(* the handlers of lines 196 and 197 *)
canReach_onfail(r) == [r EXCEPT !.promise = Resolve(@, FALSE)]

(* canReach(url, timeout): what the call leaves behind *)
canReach(url, timeout) ==
    IF ~Truthy(url)
    THEN [url |-> url, timeout |-> timeout, promise |-> "false", requests |-> 0,
          method |-> <<>>, readyState |-> 0, status |-> 0, ended |-> "none"]
    ELSE canReach_onreadystatechange(
            [url |-> url, timeout |-> timeout, promise |-> "pending", requests |-> 1,
             method |-> HEAD, readyState |-> 1, status |-> 0, ended |-> "none"])

CanReach ==
    /\ Len(probes) < MaxProbes
    /\ \E url \in ProbeUrls : \E timeout \in ProbeTimeouts :
          probes' = Append(probes, canReach(url, timeout))
    /\ UNCHANGED <<clientVars, hostVars>>

(* the probe's request reaches HEADERS_RECEIVED, then LOADING *)
ProbeProgress ==
    /\ \E p \in DOMAIN probes :
          /\ probes[p].readyState \in {1, 2}
          /\ probes' = [probes EXCEPT ![p] =
                           canReach_onreadystatechange([@ EXCEPT !.readyState = @ + 1])]
    /\ UNCHANGED <<clientVars, hostVars>>

(* the probe's request completes with a status *)
ProbeDone ==
    /\ \E p \in DOMAIN probes : \E st \in ProbeStatuses :
          /\ probes[p].readyState = 3
          /\ probes' = [probes EXCEPT ![p] =
                           canReach_onreadystatechange(
                               [@ EXCEPT !.readyState = 4, !.status = st, !.ended = "load"])]
    /\ UNCHANGED <<clientVars, hostVars>>

(* the probe's request fails in the network: readystatechange at readyState *)
(* 4 with status 0, then the error event                                    *)
ProbeError ==
    /\ \E p \in DOMAIN probes :
          /\ probes[p].readyState \in {1, 2, 3}
          /\ probes' = [probes EXCEPT ![p] =
                           canReach_onfail(canReach_onreadystatechange(
                               [@ EXCEPT !.readyState = 4, !.status = 0, !.ended = "error"]))]
    /\ UNCHANGED <<clientVars, hostVars>>

(* the probe's request runs out of its timeout (a timeout of 0 is none):    *)
(* readystatechange at readyState 4 with status 0, then the timeout event   *)
ProbeTimeout ==
    /\ \E p \in DOMAIN probes :
          /\ probes[p].readyState \in {1, 2, 3}
          /\ probes[p].timeout > 0
          /\ probes' = [probes EXCEPT ![p] =
                           canReach_onfail(canReach_onreadystatechange(
                               [@ EXCEPT !.readyState = 4, !.status = 0, !.ended = "timeout"]))]
    /\ UNCHANGED <<clientVars, hostVars>>

NextReach == CanReach \/ ProbeProgress \/ ProbeDone \/ ProbeError \/ ProbeTimeout

(* canReach is a method of the static class *)
InitReach == Init /\ variant = "static"

SpecReach == InitReach /\ [][NextReach]_vars

-----------------------------------------------------------------------------
(* canReachHost (instance, lines 628-637) in a single-threaded event loop:  *)
(* the network settles the image at any time, the load or error handler     *)
(* runs only when no function is on the stack.                              *)

(* the window of the loop at line 635, in milliseconds *)
WindowMs == 100

(* the step of the clock of the model, in milliseconds *)
TickMs == 25

HostValues == {Str(AbsoluteUrl), Undefined, Num(7)}

(* lines 629-634: the state of a call when it enters the loop, or its result *)
canReachHost(host) ==
    IF typeof(host) # "string"
    THEN [host |-> host, start |-> now, reached |-> FALSE, img |-> "none", settledAt |-> -1,
          queued |-> FALSE, pc |-> "returned", result |-> FALSE]
    ELSE [host |-> host, start |-> now, reached |-> FALSE, img |-> "loading", settledAt |-> -1,
          queued |-> FALSE, pc |-> "loop", result |-> FALSE]

(* the condition of the while at line 635 *)
canReachHost_loops(c) == now - c.start < WindowMs /\ ~c.reached

CanReachHost ==
    /\ Len(hostCalls) < MaxHostCalls
    /\ stack = 0
    /\ \E host \in HostValues :
          LET c == canReachHost(host)
          IN  /\ hostCalls' = Append(hostCalls, c)
              /\ stack' = (IF c.pc = "loop" THEN Len(hostCalls) + 1 ELSE 0)
    /\ UNCHANGED <<clientVars, probes, now>>

(* one evaluation of the loop condition: another turn, or line 636 *)
Loop ==
    /\ stack # 0
    /\ LET c == hostCalls[stack]
       IN  IF canReachHost_loops(c)
           THEN UNCHANGED <<hostCalls, stack>>
           ELSE /\ hostCalls' = [hostCalls EXCEPT ![stack].pc = "returned",
                                                   ![stack].result = c.reached]
                /\ stack' = 0
    /\ UNCHANGED <<clientVars, probes, now>>

(* the clock advances *)
Tick ==
    /\ now + TickMs <= MaxNow
    /\ now' = now + TickMs
    /\ UNCHANGED <<clientVars, probes, hostCalls, stack>>

(* the network loads the image of call i, or fails to: a task that fires     *)
(* load or error is queued                                                   *)
ImageSettles ==
    /\ \E i \in DOMAIN hostCalls :
          /\ hostCalls[i].img = "loading"
          /\ hostCalls' = [hostCalls EXCEPT ![i].img = "settled", ![i].settledAt = now,
                                            ![i].queued = TRUE]
    /\ UNCHANGED <<clientVars, probes, now, stack>>

(* the event loop runs the queued task: the handler of line 633 *)
ImageEvent ==
    /\ stack = 0
    /\ \E i \in DOMAIN hostCalls :
          /\ hostCalls[i].queued
          /\ hostCalls' = [hostCalls EXCEPT ![i].queued = FALSE, ![i].reached = TRUE]
    /\ UNCHANGED <<clientVars, probes, now, stack>>

NextHost == CanReachHost \/ Loop \/ Tick \/ ImageSettles \/ ImageEvent

(* canReachHost is a method of the instance class *)
InitHost == Init /\ variant = "instance"

SpecHost == InitHost /\ [][NextHost]_vars

-----------------------------------------------------------------------------
(* Properties of send *)

IsConfigObject(q) == q.t = "object"

(* the config has no usable src: it is no object, or its src is absent or falsy *)
NoSrc(q) == ~IsConfigObject(q) \/ ~Truthy(q.src)

(* the requests whose response was handed to some callback, per request *)
CallsFor(x) == {i \in DOMAIN calls : calls[i].req = x}

(* C1: for a single send whose resolved callback is a function, once the   *)
(* request is at readyState 4 the callback has been invoked exactly once,  *)
(* with the payload of that response, when the status is in [200, 300),    *)
(* and not at all when it is outside; in both variants.                    *)
C1_CallbackOnceOnSuccess ==
    (nsend = 1 /\ Len(xhr) = 1 /\ typeof(xhr[1].cb) = "function" /\ xhr[1].readyState = 4)
        => IF InSuccessRange(xhr[1].status)
           THEN calls = <<Call(xhr[1].cb.f, classify(xhr[1].responseText), 1)>>
           ELSE calls = <<>>

(* C2: a send whose config is no object or has no truthy src creates,      *)
(* opens and sends no request, whatever the earlier sends left behind.     *)
C2_NoRequestWithoutSrc ==
    [][(nsend' = nsend + 1 /\ NoSrc(last'.cfg)) => (xhr' = xhr /\ con' = con)]_vars

(* a rejected send after an earlier send has left a request on the client *)
C2_Witness ==
    nsend >= 2 /\ Len(xhr) >= 1 /\ NoSrc(last.cfg) /\ obj # False

(* C3: a send whose config has a valid string src and no args records a    *)
(* warning (level 0x10) and still opens and sends exactly one request, to  *)
(* the resolved source, with an empty body.                                *)
C3_ProceedsWithoutArgs ==
    [][(/\ nsend' = nsend + 1
        /\ IsConfigObject(last'.cfg)
        /\ typeof(last'.cfg.src) = "string" /\ Truthy(last'.cfg.src)
        /\ ~Truthy(last'.cfg.args))
          => (/\ error_level' = 16
              /\ Len(xhr') = Len(xhr) + 1
              /\ xhr'[Len(xhr')].url = src'
              /\ typeof(src') = "string"
              /\ xhr'[Len(xhr')].body = <<>>)]_vars

(* the method the spec resolves for a config *)
ExpectedMethod(q) ==
    IF typeof(q.method) = "string" /\ Len(q.method.s) > 0
    THEN toUpperCase(q.method.s)
    ELSE POST

(* C4: every request is opened with the upper-cased method of the config   *)
(* of the send that issued it, "POST" when that config has no non-empty    *)
(* string method; never with a method left by an earlier send.             *)
C4_MethodFromOwnConfig ==
    \A x \in DOMAIN xhr : xhr[x].method = ExpectedMethod(xhr[x].cfg)

(* the content type the spec resolves for a config *)
ExpectedContentType(q) ==
    IF typeof(q.content_type) = "string"
    THEN toUpperCase(q.content_type.s)
    ELSE FormUrlEncoded

(* C5: every request carries exactly one header, Content-type, whose value *)
(* is the upper-cased content-type of its own config when that is a        *)
(* string and application/x-www-form-urlencoded otherwise.                 *)
C5_SingleContentTypeHeader ==
    \A x \in DOMAIN xhr :
        xhr[x].headers =
            <<[name |-> "Content-type", value |-> Str(ExpectedContentType(xhr[x].cfg))]>>

(* the first present value among func, cbf, callback, callback-function *)
FirstPresentCallback(q) ==
    IF Truthy(q.func) THEN q.func
    ELSE IF Truthy(q.cbf) THEN q.cbf
    ELSE IF Truthy(q.callback) THEN q.callback
    ELSE IF Truthy(q.callback_function) THEN q.callback_function
    ELSE False

(* C6: after send(config, cbf, func) has resolved its callback, the        *)
(* callback is cbf when cbf is supplied and func is not, func when cbf is  *)
(* true and func is supplied, and the first present of the config's        *)
(* callback keys (false if none) when neither is supplied.                 *)
C6_ResolvedCallback ==
    (nsend >= 1 /\ last.outcome \in {"sent", "not sent"})
        => /\ (last.cbf # False /\ last.func = False) => cbf = last.cbf
           /\ (last.cbf = True /\ last.func # False) => cbf = last.func
           /\ (last.cbf = False /\ last.func = False) => cbf = FirstPresentCallback(last.cfg)

(* C9: two sends with function callbacks, the second issued while the      *)
(* first request is in flight, both completing with a 2xx status in any    *)
(* order: each response is delivered exactly once, to the callback of the  *)
(* send that issued its request.                                           *)
C9_EachResponseToItsOwnCallback ==
    (/\ Len(xhr) = 2
     /\ 1 \in xhr[2].during
     /\ \A x \in {1, 2} : /\ typeof(xhr[x].cb) = "function"
                          /\ xhr[x].readyState = 4
                          /\ InSuccessRange(xhr[x].status))
        => /\ \A x \in {1, 2} : Cardinality(CallsFor(x)) = 1
           /\ \A i \in DOMAIN calls :
                 /\ calls[i].fn = xhr[calls[i].req].cb.f
                 /\ calls[i].arg = classify(xhr[calls[i].req].responseText)

(* C10: every request that send opens is opened on a non-empty string      *)
(* source, also when the config's src is a truthy value that is no string. *)
C10_OpenedSourceIsNonEmptyString ==
    \A x \in DOMAIN xhr : typeof(xhr[x].url) = "string" /\ Len(xhr[x].url.s) > 0

-----------------------------------------------------------------------------
(* Properties of the reachability probes *)

(* C7: a call of canReachHost with a string host whose image settled       *)
(* (load or error) within the 100 ms window has returned true; it returns  *)
(* false only when the image did not settle within the window.             *)
C7_TrueWhenImageSettlesInWindow ==
    \A i \in DOMAIN hostCalls :
        LET c == hostCalls[i] IN
        (/\ typeof(c.host) = "string"
         /\ c.pc = "returned"
         /\ c.settledAt # -1
         /\ c.settledAt - c.start < WindowMs)
            => c.result = TRUE

(* what C8 says of every probe in every state *)
C8_Probe(r) ==
    IF ~Truthy(r.url)
    THEN r.promise = "false" /\ r.requests = 0
    ELSE /\ r.requests = 1
         /\ r.method = HEAD
         /\ r.promise = "true" <=> (r.ended = "load" /\ r.status >= 200 /\ r.status < 300)
         /\ r.ended \in {"error", "timeout"} => r.promise = "false"
         /\ (r.ended = "load" /\ ~(r.status >= 200 /\ r.status < 300)) => r.promise = "false"
         /\ r.ended = "none" => r.promise = "pending"

====
